---------------------------- MODULE Spec2Model ----------------------------
(***************************************************************************)
(* A model of the CHIP-8 core of chip8-c++ (core/core.hpp, core/core.cpp)  *)
(* and of the calls the SDL frontend makes on it (frontend_sdl/main.cpp).  *)
(*                                                                         *)
(* The state of a Core is the tuple of its fields.  assert() is modelled   *)
(* as enabled (the code reports invalid instructions through it): a failed *)
(* assertion aborts the process, which the model records in `fault`, after *)
(* which no operation of the core is enabled.                              *)
(***************************************************************************)
EXTENDS Integers, Sequences, FiniteSets, TLC

VARIABLES
    v,                          \* std::array<uint8_t, 0x10> v
    pc,                         \* uint16_t pc
    i,                          \* uint16_t i
    written,                    \* main_memory: its bytes that differ from what create() stored
    sp,                         \* size_t sp
    stack,                      \* std::array<uint16_t, STACK_SIZE> stack
    timer_sound,                \* uint8_t timer_sound
    timer_delay,                \* uint8_t timer_delay
    fb,                         \* Framebuffer::pixel_array, as the set of indices holding PIXEL_ON
    hexpad_bitmap,              \* Hexpad::hexpad_bitmap
    is_waiting_for_keypress,    \* bool is_waiting_for_keypress
    keypress_index_register,    \* size_t keypress_index_register
    fault,                      \* "none", or the assertion that aborted the process
    rom,                        \* index in ROMS of the image the frontend gave to Core::create
    steps                       \* number of run_for_instruction() calls made by the driver

vars == <<v, pc, i, written, sp, stack, timer_sound, timer_delay, fb,
          hexpad_bitmap, is_waiting_for_keypress, keypress_index_register, fault,
          rom, steps>>

---------------------------------------------------------------------------
(* Program constants.                                                      *)

STACK_SIZE == 16
FB_WIDTH == 60
FB_HEIGHT == 60
MEM_SIZE == 4096
ROM_BASE == 512
UINT8_MAX == 255

(* Bounds of the model.                                                    *)

\* the driver makes at most MaxSteps calls of run_for_instruction
MaxSteps == 40
\* keys 0 .. MaxKey-1 of the hexpad are the ones the modelled user touches
MaxKey == 2
\* run_for_instructions_then_tick_timers is called with 0 .. MaxBatch
\* instructions (the frontend passes 60)
MaxBatch == 3

---------------------------------------------------------------------------
(* Fixed-width integer helpers.                                            *)

Pow2(k) == 2 ^ k

\* bit k of the non-negative integer a
Bit(a, k) == (a \div Pow2(k)) % 2

RECURSIVE BitAnd(_, _)
BitAnd(a, b) ==
    IF a = 0 \/ b = 0 THEN 0
    ELSE (a % 2) * (b % 2) + 2 * BitAnd(a \div 2, b \div 2)

RECURSIVE BitOr(_, _)
BitOr(a, b) ==
    IF a = 0 THEN b
    ELSE IF b = 0 THEN a
    ELSE (IF (a % 2) + (b % 2) > 0 THEN 1 ELSE 0) + 2 * BitOr(a \div 2, b \div 2)

RECURSIVE BitXor(_, _)
BitXor(a, b) ==
    IF a = 0 THEN b
    ELSE IF b = 0 THEN a
    ELSE (((a % 2) + (b % 2)) % 2) + 2 * BitXor(a \div 2, b \div 2)

\* conversion of an int to uint8_t / uint16_t
U8(a) == a % 256
U16(a) == a % 65536

\* floor(log2(a)) for a > 0, the value std::log2 truncates to in reg_write
RECURSIVE Log2Floor(_)
Log2Floor(a) == IF a <= 1 THEN 0 ELSE 1 + Log2Floor(a \div 2)

FONT_DATA ==
    << 240, 144, 144, 144, 240,
        32,  96,  32,  32, 112,
       240,  16, 240, 128, 240,
       240,  16, 240,  16, 240,
       144, 144, 240,  16,  16,
       240, 128, 240,  16, 240,
       240, 128, 240, 144, 240,
       240,  16,  32,  64,  64,
       240, 144, 240, 144, 240,
       240, 144, 240,  16, 240,
       240, 144, 240, 144, 144,
       224, 144, 224, 144, 224,
       240, 128, 128, 128, 240,
       224, 144, 144, 144, 224,
       240, 128, 240, 128, 240,
       240, 128, 240, 128, 128 >>

---------------------------------------------------------------------------
(* ROM images the model runs.                                              *)

\* the two bytes of an instruction word, high byte first
W(word) == <<word \div 256, word % 256>>
\* the word with nibbles a b c d
Ins(a, b, c, d) == W(a * 4096 + b * 256 + c * 16 + d)

\* d nested calls followed by returns: block k (at 0x200 + 4k) calls block k+1
\* and holds the return that follows that call; block d holds only returns
RECURSIVE CallBlocks(_, _)
CallBlocks(k, d) ==
    IF k >= d THEN <<>>
    ELSE W(2 * 4096 + ROM_BASE + 4 * (k + 1)) \o W(238) \o CallBlocks(k + 1, d)
RECURSIVE Returns(_)
Returns(count) == IF count = 0 THEN <<>> ELSE W(238) \o Returns(count - 1)
CallRetRom(d) == CallBlocks(0, d) \o Returns(d + 1)

\* Fx0A, 7x01 : wait for a key into Vx, then add 1 to it
WaitRom(x) == Ins(15, x, 0, 10) \o Ins(7, x, 0, 1)

\* 6x<value>, Fx15, 6x<value - 1>, Fx18, Fx07 : set both timers, read the delay timer
\* 6x dd, Fx15, 6x ss, Fx18, Ft0A, Fx07 : the delay timer set to dd, the
\* sound timer to ss, then a wait for a key into Vt and a read of the delay timer
TimerWaitRom(x, delay, sound, t) ==
    W(6 * 4096 + x * 256 + delay) \o Ins(15, x, 1, 5)
        \o W(6 * 4096 + x * 256 + sound) \o Ins(15, x, 1, 8)
        \o Ins(15, t, 0, 10) \o Ins(15, x, 0, 7)

TimerRom(x, value) ==
    W(6 * 4096 + x * 256 + value) \o Ins(15, x, 1, 5)
        \o W(6 * 4096 + x * 256 + value - 1) \o Ins(15, x, 1, 8) \o Ins(15, x, 0, 7)

\* 6x<vx>, 6y<vy>, A<address>, Dxyn, Dxyn : the same sprite drawn twice
DrawTwiceRom(x, y, vxv, vyv, address, n) ==
    W(6 * 4096 + x * 256 + vxv) \o W(6 * 4096 + y * 256 + vyv)
        \o W(10 * 4096 + address) \o Ins(13, x, y, n) \o Ins(13, x, y, n)

\* Cx maskx, Cy masky, 8xy<op> : two random registers, then one ALU instruction
AluRom(op, x, y, maskx, masky) ==
    W(12 * 4096 + x * 256 + maskx) \o W(12 * 4096 + y * 256 + masky) \o Ins(8, x, y, op)

ALU_OPS == <<4, 5, 6, 7, 14>>

\* an image of the largest size, 4096 - 512 bytes: `head` at 0x200, `tail` in
\* the last bytes of memory (ending at 0xFFF), zero bytes between them
FullRom(head, tail) ==
    [k \in 1..(MEM_SIZE - ROM_BASE) |->
        IF k <= Len(head) THEN head[k]
        ELSE IF k > MEM_SIZE - ROM_BASE - Len(tail)
             THEN tail[k - (MEM_SIZE - ROM_BASE - Len(tail))]
        ELSE 0]

\* an image one byte larger than the largest
TooLargeRom == [k \in 1..(MEM_SIZE - ROM_BASE + 1) |-> 0]

\* 60FF, BFFF : jump to V0 + 0xFFF with V0 = 255
JumpOffsetWrapRom == W(6 * 4096 + 255) \o W(11 * 4096 + 4095)
\* AFFF, 60FF, F01E : add V0 = 255 to I = 0xFFF
AddIndexWrapRom == W(10 * 4096 + 4095) \o W(6 * 4096 + 255) \o Ins(15, 0, 1, 14)
\* 1FFC, and 3000 at 0xFFC : a skip taken with PC = 0xFFE
SkipWrapRom == FullRom(W(4096 + 4092), W(3 * 4096) \o <<0, 0>>)
\* 1FFF, and 0x60 at 0xFFF : the word fetched at 0xFFF is 60F0, its low byte
\* the first byte of the font
FetchWrapRom == FullRom(W(4096 + 4095), <<96>>)
\* AFFF, then FX33 / FX55 / FX65 / DXYN with more than one byte at I
MemEdgeRom(word) == W(10 * 4096 + 4095) \o W(word)

\* Cx FF, Fx29 : the glyph address of a random byte
FontRom(x) == W(12 * 4096 + x * 256 + 255) \o Ins(15, x, 2, 9)

\* the words 0x0000..0x0FFF, 0x8000..0x800F, 0xE000..0xE0FF, 0xF000..0xF0FF
\* in this order: every word of the families that have unknown members
DecodeWord(k) ==
    IF k <= 4096 THEN k - 1
    ELSE IF k <= 4096 + 16 THEN 8 * 4096 + (k - 4096 - 1)
    ELSE IF k <= 4096 + 16 + 256 THEN 14 * 4096 + (k - 4096 - 16 - 1)
    ELSE 15 * 4096 + (k - 4096 - 16 - 256 - 1)

CALL_ROMS == [d \in 1..(STACK_SIZE + 1) |-> CallRetRom(d)]

WAIT_ROMS == <<WaitRom(3)>>

TIMER_ROMS == <<TimerRom(2, 3), TimerWaitRom(2, 5, 1, 4)>>

\* glyph 0 at the origin, glyph 1 across the right and bottom edges,
\* and four rows of zero bytes
DRAW_ROMS ==
    << DrawTwiceRom(0, 1, 0, 0, 0, 5),
       DrawTwiceRom(2, 3, 59, 58, 5, 5),
       DrawTwiceRom(0, 1, 10, 10, 768, 4) >>

\* every byte value in Vx for each ALU instruction; in Vy every byte value for
\* the addition, and 16 values (3 and 10 among them) for the others
ALU_ROMS ==
    [k \in 1..Len(ALU_OPS) |->
        AluRom(ALU_OPS[k], 0, 1, UINT8_MAX, IF ALU_OPS[k] = 4 THEN UINT8_MAX ELSE 139)]

\* every pair of register indices, with Vx and Vy among 0, 1, 128 and 129
ALU_INDEX_ROMS ==
    [k \in 1..(Len(ALU_OPS) * 256) |->
        AluRom(ALU_OPS[((k - 1) \div 256) + 1], ((k - 1) \div 16) % 16, (k - 1) % 16,
               129, 129)]

\* the images at the edges of memory and of the image size
EDGE_ROMS ==
    << JumpOffsetWrapRom, AddIndexWrapRom, SkipWrapRom, FetchWrapRom, TooLargeRom,
       FullRom(<<>>, <<>>),
       MemEdgeRom(15 * 4096 + 51), MemEdgeRom(15 * 4096 + 256 + 85),
       MemEdgeRom(15 * 4096 + 256 + 101), MemEdgeRom(13 * 4096 + 2) >>

FONT_ROMS == <<FontRom(0), FontRom(15)>>

\* one image per word of DecodeWord: 6005, then the word at 0x202
DECODE_ROMS ==
    [k \in 1..(4096 + 16 + 256 + 256) |-> W(6 * 4096 + 5) \o W(DecodeWord(k))]

\* the skips taken and not taken, a clear, a call and a jump:
\* 6005 3005 0000 3006 4006 0000 4005 6105 5010 0000 5020 9020 0000 9010
\* 00E0 2222 0000 1226 0000
SkipRom ==
    W(6 * 4096 + 5) \o W(3 * 4096 + 5) \o W(0) \o W(3 * 4096 + 6)
        \o W(4 * 4096 + 6) \o W(0) \o W(4 * 4096 + 5) \o W(6 * 4096 + 256 + 5)
        \o Ins(5, 0, 1, 0) \o W(0) \o Ins(5, 0, 2, 0)
        \o Ins(9, 0, 2, 0) \o W(0) \o Ins(9, 0, 1, 0)
        \o W(224) \o W(2 * 4096 + 546) \o W(0) \o W(4096 + 550) \o W(0)

\* Cx FF, Ex9E, 6101, ExA1, 6201 : the two key tests on a random byte
KeyRom(x) ==
    W(12 * 4096 + x * 256 + 255) \o Ins(14, x, 9, 14) \o W(6 * 4096 + 256 + 1)
        \o Ins(14, x, 10, 1) \o W(6 * 4096 + 512 + 1)

STEP_ROMS == <<SkipRom, KeyRom(0)>>

\* 6F5A, C0FF, C18B, A321, then `word` on V0 and V1: VF and I hold values
\* that an instruction without a flag has to leave
FlagRom(word) ==
    W(6 * 4096 + 15 * 256 + 90) \o W(12 * 4096 + 255) \o W(12 * 4096 + 256 + 139)
        \o W(10 * 4096 + 801) \o W(word)

\* C0FF C181 6233 6344 A300 F255 F265 6011 6122 6277 F165 : V0..V2 stored at
\* 0x300 and loaded again, then V0, V1 loaded over other values
StoreLoadRom ==
    W(12 * 4096 + 255) \o W(12 * 4096 + 256 + 129) \o W(6 * 4096 + 512 + 51)
        \o W(6 * 4096 + 768 + 68) \o W(10 * 4096 + 768)
        \o Ins(15, 2, 5, 5) \o Ins(15, 2, 6, 5)
        \o W(6 * 4096 + 17) \o W(6 * 4096 + 256 + 34) \o W(6 * 4096 + 512 + 119)
        \o Ins(15, 1, 6, 5)

\* Cx FF, A300, Fx33 : the decimal digits of a random byte
BcdRom(x) == W(12 * 4096 + x * 256 + 255) \o W(10 * 4096 + 768) \o Ins(15, x, 3, 3)

REG_ROMS ==
    << FlagRom(6 * 4096 + 200), FlagRom(7 * 4096 + 200),
       FlagRom(8 * 4096 + 16), FlagRom(8 * 4096 + 17),
       FlagRom(8 * 4096 + 18), FlagRom(8 * 4096 + 19),
       StoreLoadRom, BcdRom(0) >>

\* the images of the earlier sections, in the order of their indices
FIRST_ROMS ==
    CALL_ROMS \o WAIT_ROMS \o TIMER_ROMS \o DRAW_ROMS \o EDGE_ROMS
        \o ALU_ROMS \o ALU_INDEX_ROMS \o FONT_ROMS \o DECODE_ROMS

\* every image of the model; a specification starts from a part of them
ROMS == FIRST_ROMS \o STEP_ROMS \o REG_ROMS

\* the indices in ROMS of the images of `list`, which follows `before` there
IdsAfter(before, list) == (Len(before) + 1)..(Len(before) + Len(list))

CALL_ROM_IDS == 1..Len(CALL_ROMS)
WAIT_ROM_IDS == IdsAfter(CALL_ROMS, WAIT_ROMS)
TIMER_ROM_IDS == IdsAfter(CALL_ROMS \o WAIT_ROMS, TIMER_ROMS)
DRAW_ROM_IDS == IdsAfter(CALL_ROMS \o WAIT_ROMS \o TIMER_ROMS, DRAW_ROMS)
EDGE_ROM_IDS == IdsAfter(CALL_ROMS \o WAIT_ROMS \o TIMER_ROMS \o DRAW_ROMS, EDGE_ROMS)
STEP_ROM_IDS == IdsAfter(FIRST_ROMS, STEP_ROMS)
\* the image at position k of STEP_ROMS
StepRomId(k) == Len(FIRST_ROMS) + k
REG_ROM_IDS == IdsAfter(FIRST_ROMS \o STEP_ROMS, REG_ROMS)
\* the image at position k of REG_ROMS
RegRomId(k) == Len(FIRST_ROMS \o STEP_ROMS) + k
GENERAL_ROM_IDS ==
    CALL_ROM_IDS \cup WAIT_ROM_IDS \cup TIMER_ROM_IDS \cup DRAW_ROM_IDS \cup EDGE_ROM_IDS
        \cup STEP_ROM_IDS
ALU_ROM_IDS ==
    IdsAfter(CALL_ROMS \o WAIT_ROMS \o TIMER_ROMS \o DRAW_ROMS \o EDGE_ROMS,
             ALU_ROMS \o ALU_INDEX_ROMS)
FONT_ROM_IDS ==
    IdsAfter(CALL_ROMS \o WAIT_ROMS \o TIMER_ROMS \o DRAW_ROMS \o EDGE_ROMS
                \o ALU_ROMS \o ALU_INDEX_ROMS, FONT_ROMS)
DECODE_ROM_IDS ==
    IdsAfter(CALL_ROMS \o WAIT_ROMS \o TIMER_ROMS \o DRAW_ROMS \o EDGE_ROMS
                \o ALU_ROMS \o ALU_INDEX_ROMS \o FONT_ROMS, DECODE_ROMS)
\* the image at position k of EDGE_ROMS
EdgeRomId(k) == Len(CALL_ROMS \o WAIT_ROMS \o TIMER_ROMS \o DRAW_ROMS) + k

\* main_memory[a] as create(rom, rom_length) leaves it
ImageByte(romBytes, a) ==
    IF Len(romBytes) > MEM_SIZE - ROM_BASE THEN 0
    ELSE IF a < Len(FONT_DATA) THEN FONT_DATA[a + 1]
    ELSE IF a >= ROM_BASE /\ a - ROM_BASE < Len(romBytes)
         THEN U8(romBytes[a - ROM_BASE + 1])
    ELSE 0

---------------------------------------------------------------------------
(* The Core as a value: a record of its fields.  The operators below are   *)
(* the member functions of Core, each taking the Core it is called on.     *)

Self ==
    [ v |-> v, pc |-> pc, i |-> i, written |-> written, rom |-> rom, sp |-> sp,
      stack |-> stack, timer_sound |-> timer_sound, timer_delay |-> timer_delay,
      fb |-> fb, hexpad_bitmap |-> hexpad_bitmap,
      is_waiting_for_keypress |-> is_waiting_for_keypress,
      keypress_index_register |-> keypress_index_register, fault |-> fault ]

\* a failed assert(): the process aborts with the state it had
Abort(c, what) == [c EXCEPT !.fault = what]

\* Core() : value-initialisation of an aggregate of trivially constructible members
DefaultCore ==
    [ v |-> [r \in 0..15 |-> 0], pc |-> 0, i |-> 0,
      written |-> [a \in {} |-> 0], rom |-> 0, sp |-> 0,
      stack |-> [s \in 0..(STACK_SIZE - 1) |-> 0],
      timer_sound |-> 0, timer_delay |-> 0, fb |-> {}, hexpad_bitmap |-> 0,
      is_waiting_for_keypress |-> FALSE, keypress_index_register |-> 0,
      fault |-> "none" ]

reg_write(c, index, value) ==
    IF index < 16 THEN [c EXCEPT !.v[index] = U8(value)]
    ELSE Abort(c, "reg_write")

\* The 4096 bytes of main_memory are kept as the image create() stored
\* (ImageByte of the ROM) together with `written`, the bytes that differ from
\* it; mem_write keeps `written` canonical, so equal memories are equal states.
\* main_memory[address] : the byte written last, else the byte create() stored
main_memory(c, address) ==
    IF address \in DOMAIN c.written THEN c.written[address]
    ELSE ImageByte(ROMS[c.rom], address)

mem_write(c, address, value) ==
    IF address < MEM_SIZE
    THEN LET differs == IF U8(value) = ImageByte(ROMS[c.rom], address)
                        THEN DOMAIN c.written \ {address}
                        ELSE DOMAIN c.written \cup {address}
         IN  [c EXCEPT !.written =
                 [a \in differs |-> IF a = address THEN U8(value) ELSE c.written[a]]]
    ELSE Abort(c, "mem_write")

vf_set(c, value) == [c EXCEPT !.v[15] = IF value THEN 1 ELSE 0]

i_set(c, value) == [c EXCEPT !.i = BitAnd(U16(value), 4095)]

\* variant: the value is stored as it is
pc_set_NoMask(c, value) == [c EXCEPT !.pc = U16(value)]

pc_set(c, value) == [c EXCEPT !.pc = BitAnd(U16(value), 4095)]

skip_instr(c) == pc_set(c, c.pc + 2)

\* fetch() : the core after the fetch; the byte fetched is FetchedByte(c)
fetch(c) == pc_set(c, c.pc + 1)
FetchedByte(c) == main_memory(c, c.pc)

\* stack_push with its assertion compiled out
stack_push_CallAddress(c) ==
    IF c.sp < STACK_SIZE
    THEN [c EXCEPT !.stack[c.sp] = (c.pc + MEM_SIZE - 2) % MEM_SIZE, !.sp = c.sp + 1]
    ELSE Abort(c, "stack_push")

stack_push_Unchecked(c) == [c EXCEPT !.stack[c.sp] = c.pc, !.sp = c.sp + 1]

stack_push(c) ==
    IF c.sp < STACK_SIZE
    THEN [c EXCEPT !.stack[c.sp] = c.pc, !.sp = c.sp + 1]
    ELSE Abort(c, "stack_push")

stack_pop(c) ==
    IF c.sp > 0
    THEN [c EXCEPT !.stack[c.sp - 1] = c.pc, !.sp = c.sp - 1]
    ELSE Abort(c, "stack_pop")

\* Core::create(rom, rom_length) for the image ROMS[r]; the bytes it stores
\* in main_memory are ImageByte(ROMS[r], a)
\* variant: the image is taken whatever its size
create_NoSizeCheck(r) == [DefaultCore EXCEPT !.rom = r, !.pc = 512]

create(r) ==
    IF Len(ROMS[r]) > MEM_SIZE - ROM_BASE
    THEN Abort([DefaultCore EXCEPT !.rom = r], "rom_too_large")
    ELSE [DefaultCore EXCEPT !.rom = r, !.pc = 512]

tick_timers(c) ==
    [c EXCEPT
        !.timer_delay = IF c.timer_delay > 0 THEN c.timer_delay - 1 ELSE c.timer_delay,
        !.timer_sound = IF c.timer_sound > 0 THEN c.timer_sound - 1 ELSE c.timer_sound]

Hexpad_is_key_pressed(bitmap, index) == BitAnd(bitmap, Pow2(index)) # 0

\* variant: the index written is that of the lowest newly set bit
update_hexpad_bitmap_LowestBit(c, bitmap) ==
    LET old_bitmap == c.hexpad_bitmap
        diff == BitAnd(BitXor(bitmap, old_bitmap), bitmap)
        lowest == CHOOSE k \in 0..15 :
                      diff # 0 => (Bit(diff, k) = 1 /\ \A j \in 0..(k - 1) : Bit(diff, j) = 0)
        c1 == IF c.is_waiting_for_keypress /\ diff # 0
              THEN reg_write([c EXCEPT !.is_waiting_for_keypress = FALSE],
                             c.keypress_index_register, lowest)
              ELSE c
    IN  [c1 EXCEPT !.hexpad_bitmap = bitmap]

\* variant: any key held in the new bitmap ends the wait, new or not
update_hexpad_bitmap_AnyHeldKey(c, bitmap) ==
    LET diff == bitmap
        c1 == IF c.is_waiting_for_keypress /\ diff # 0
              THEN reg_write([c EXCEPT !.is_waiting_for_keypress = FALSE],
                             c.keypress_index_register, Log2Floor(diff))
              ELSE c
    IN  [c1 EXCEPT !.hexpad_bitmap = bitmap]

update_hexpad_bitmap(c, bitmap) ==
    LET old_bitmap == c.hexpad_bitmap
        diff == BitAnd(BitXor(bitmap, old_bitmap), bitmap)
        c1 == IF c.is_waiting_for_keypress /\ diff # 0
              THEN reg_write([c EXCEPT !.is_waiting_for_keypress = FALSE],
                             c.keypress_index_register, Log2Floor(diff))
              ELSE c
    IN  [c1 EXCEPT !.hexpad_bitmap = bitmap]

---------------------------------------------------------------------------
(* Core::run_for_instruction.                                              *)

\* a uint32_t value, kept as two 16-bit halves (the conversion of an int)
ToU32(a) == [hi |-> (a \div 65536) % 65536, lo |-> a % 65536]
\* `res < 0` on a uint32_t
U32Negative(r) == r.hi < 0 \/ (r.hi = 0 /\ r.lo < 0)
\* the conversion uint32_t -> uint8_t done by reg_write's parameter
U32ToU8(r) == r.lo % 256

\* 8XY4 with the carry taken from the sum reaching UINT8_MAX
Op8XY4_CarryAtMax(c, x, vx, vy) ==
    LET res == vx + vy
        carry == res >= UINT8_MAX
    IN  vf_set(reg_write(c, x, res), carry)

Op8XY4(c, x, vx, vy) ==
    LET res == vx + vy
        carry == res > UINT8_MAX
    IN  vf_set(reg_write(c, x, res), carry)

Op8XY5(c, x, vx, vy) ==
    LET res == ToU32(vx - vy)
        no_borrow == U32Negative(res)
    IN  vf_set(reg_write(c, x, U32ToU8(res)), no_borrow)

Op8XY6(c, x, vx) ==
    LET lsb == BitAnd(vx, 1) # 0
    IN  vf_set(reg_write(c, x, vx \div 2), lsb)

Op8XY7(c, x, vx, vy) ==
    LET res == ToU32(vy - vx)
        no_borrow == U32Negative(res)
    IN  vf_set(reg_write(c, x, U32ToU8(res)), no_borrow)

\* 8XYE with the flag taken from bit 6
Op8XYE_Bit6(c, x, vx) ==
    LET msb == (vx \div 64) # 0
    IN  vf_set(reg_write(c, x, vx * 2), msb)

Op8XYE(c, x, vx) ==
    LET msb == (vx \div 128) # 0
    IN  vf_set(reg_write(c, x, vx * 2), msb)

\* Framebuffer::pixel_status / set_pixel on the set of PIXEL_ON indices
InFramebuffer(px, py) == px < FB_WIDTH /\ py < FB_HEIGHT
pixel_status(fbv, px, py) == (py * FB_WIDTH + px) \in fbv
set_pixel(fbv, px, py, status) ==
    IF status THEN fbv \cup {py * FB_WIDTH + px} ELSE fbv \ {py * FB_WIDTH + px}

\* the inner loop of DXYN, from column w on: the framebuffer and the collision flag
RECURSIVE DrawColumns(_, _, _, _, _, _, _, _, _)
DrawColumns(d, row, h, w, n, x, y, vx, vy) ==
    IF w >= n \/ d.fault # "none" THEN d
    ELSE LET xp == (vx + w) % FB_WIDTH
             yp == (vy + h) % FB_HEIGHT
             new_pixel == BitAnd(row, Pow2(w)) # 0
         IN  IF ~InFramebuffer(xp, yp) THEN [d EXCEPT !.fault = "pixel_status"]
             ELSE IF ~InFramebuffer(x, y) THEN [d EXCEPT !.fault = "set_pixel"]
             ELSE LET old_pixel == pixel_status(d.fb, xp, yp)
                  IN  DrawColumns([d EXCEPT
                                     !.collision = d.collision \/ (old_pixel # new_pixel),
                                     !.fb = set_pixel(d.fb, x, y, TRUE)],
                                  row, h, w + 1, n, x, y, vx, vy)

\* the outer loop of DXYN, from row h on
RECURSIVE DrawRows(_, _, _, _, _, _, _, _, _)
DrawRows(c, collision, h, n, x, y, vx, vy, i0) ==
    IF h >= n THEN vf_set(c, collision)
    ELSE IF U16(i0 + h) >= MEM_SIZE THEN Abort(c, "mem_read")
    ELSE LET row == main_memory(c, U16(i0 + h))
             d == DrawColumns([fb |-> c.fb, collision |-> collision, fault |-> "none"],
                              row, h, 0, n, x, y, vx, vy)
         IN  IF d.fault # "none" THEN Abort([c EXCEPT !.fb = d.fb], d.fault)
             ELSE DrawRows([c EXCEPT !.fb = d.fb], d.collision, h + 1, n, x, y, vx, vy, i0)

OpDXYN(c, n, x, y, vx, vy, i0) == DrawRows(c, FALSE, 0, n, x, y, vx, vy, i0)

\* mem_write of values[k], values[k+1], ... at address, address + 1, ...
RECURSIVE MemWriteFrom(_, _, _, _)
MemWriteFrom(c, address, values, k) ==
    IF k > Len(values) THEN c
    ELSE IF U16(address) >= MEM_SIZE THEN Abort(c, "mem_write")
    ELSE MemWriteFrom(mem_write(c, U16(address), values[k]), address + 1, values, k + 1)

\* variant: the units first, the hundreds last
OpFX33_UnitsFirst(c, vx, i0) ==
    MemWriteFrom(c, i0, <<vx % 10, (vx \div 10) % 10, (vx \div 100) % 10>>, 1)

\* variant: the registers below x, without Vx
OpFX55_Exclusive(c, x, i0) == MemWriteFrom(c, i0, [j \in 1..x |-> c.v[j - 1]], 1)

OpFX33(c, vx, i0) ==
    LET d0 == vx % 10
        d1 == (vx \div 10) % 10
        d2 == (vx \div 100) % 10
    IN  MemWriteFrom(c, i0, <<d2, d1, d0>>, 1)

OpFX55(c, x, i0) == MemWriteFrom(c, i0, [j \in 1..(x + 1) |-> c.v[j - 1]], 1)

\* the loop of FX65, from register j on
RECURSIVE OpFX65From(_, _, _, _)
OpFX65From(c, j, x, i0) ==
    IF j > x THEN c
    ELSE IF U16(i0 + j) >= MEM_SIZE THEN Abort(c, "mem_read")
    ELSE OpFX65From(reg_write(c, j, main_memory(c, U16(i0 + j))), j + 1, x, i0)

OpFX65(c, x, i0) == OpFX65From(c, 0, x, i0)

\* the switch of run_for_instruction; c is the core after the two fetches,
\* rnd the low byte of the value std::rand() returns
\* variant: PC is put back on the word, which runs again at the next step
OpFX0A_Rewind(c, x) ==
    pc_set([c EXCEPT !.is_waiting_for_keypress = TRUE, !.keypress_index_register = x],
           c.pc - 2)

\* variant: the glyph of the low nibble of vx
OpFX29_LowNibble(c, vx) == i_set(c, BitAnd(vx, 15) * 5)

\* the wait for a key: the flag and the destination register; PC stays where
\* the fetch left it, after the word
OpFX0A(c, x) ==
    [c EXCEPT !.is_waiting_for_keypress = TRUE, !.keypress_index_register = x]

\* the address of the glyph of vx: five bytes per glyph, the font at address 0
OpFX29(c, vx) == i_set(c, vx * 5)

\* variant: the word is skipped (the assertion compiled out)
InvalidInstr_Ignored(c) == c

\* variant: PC is put back on the word before the process ends
InvalidInstr_Rewind(c) == Abort(pc_set(c, c.pc - 2), "invalid_instr")

\* invalid_instr: the message, then the assertion that ends the process
InvalidInstr(c) == Abort(c, "invalid_instr")

\* variant: the key tested is vx itself
KeyIndex_Unmasked(vx) == vx

\* the index passed to is_key_pressed, which asserts that it is below 16
KeyIndex(vx) == BitAnd(vx, 15)

\* 7XNN: the sum stored through the conversion to uint8_t, no flag
Op7XNN_Carry(c, x, vx, nn) ==
    vf_set(reg_write(c, x, vx + nn), vx + nn > UINT8_MAX)

Op7XNN(c, x, vx, nn) == reg_write(c, x, vx + nn)

Execute(c, instruction, rnd) ==
    LET nnn == instruction % 4096
        nn == instruction % 256
        n == instruction % 16
        x == (instruction \div 256) % 16
        y == (instruction \div 16) % 16
        vx == c.v[x]
        vy == c.v[y]
        v0 == c.v[0]
        i0 == c.i
        key_pressed == Hexpad_is_key_pressed(c.hexpad_bitmap, KeyIndex(vx))
        in000 == instruction \div 4096
        i000n == instruction % 16
        i00nn == instruction % 256
        invalid_instr == InvalidInstr(c)
    IN  IF KeyIndex(vx) >= 16 THEN Abort(c, "is_key_pressed") ELSE
        CASE instruction = 224 -> [c EXCEPT !.fb = {}]
          [] instruction = 238 -> stack_pop(c)
          [] OTHER ->
             CASE in000 = 0 -> invalid_instr
               [] in000 = 1 -> pc_set(c, nnn)
               [] in000 = 2 ->
                    LET pushed == stack_push(c)
                    IN  IF pushed.fault # "none" THEN pushed ELSE pc_set(pushed, nnn)
               [] in000 = 3 -> IF vx = nn THEN skip_instr(c) ELSE c
               [] in000 = 4 -> IF vx # nn THEN skip_instr(c) ELSE c
               [] in000 = 5 -> IF vx = vy THEN skip_instr(c) ELSE c
               [] in000 = 6 -> reg_write(c, x, nn)
               [] in000 = 7 -> Op7XNN(c, x, vx, nn)
               [] in000 = 8 ->
                    CASE i000n = 0 -> reg_write(c, x, vy)
                      [] i000n = 1 -> reg_write(c, x, BitOr(vx, vy))
                      [] i000n = 2 -> reg_write(c, x, BitAnd(vx, vy))
                      [] i000n = 3 -> reg_write(c, x, BitXor(vx, vy))
                      [] i000n = 4 -> Op8XY4(c, x, vx, vy)
                      [] i000n = 5 -> Op8XY5(c, x, vx, vy)
                      [] i000n = 6 -> Op8XY6(c, x, vx)
                      [] i000n = 7 -> Op8XY7(c, x, vx, vy)
                      [] i000n = 14 -> Op8XYE(c, x, vx)
                      [] OTHER -> invalid_instr
               [] in000 = 9 -> IF vx # vy THEN skip_instr(c) ELSE c
               [] in000 = 10 -> i_set(c, nnn)
               [] in000 = 11 -> pc_set(c, v0 + nnn)
               [] in000 = 12 -> reg_write(c, x, BitAnd(rnd, nn))
               [] in000 = 13 -> OpDXYN(c, n, x, y, vx, vy, i0)
               [] in000 = 14 ->
                    CASE i00nn = 158 -> IF key_pressed THEN skip_instr(c) ELSE c
                      [] i00nn = 161 -> IF ~key_pressed THEN skip_instr(c) ELSE c
                      [] OTHER -> invalid_instr
               [] in000 = 15 ->
                    CASE i00nn = 7 -> reg_write(c, x, c.timer_delay)
                      [] i00nn = 10 -> OpFX0A(c, x)
                      [] i00nn = 21 -> [c EXCEPT !.timer_delay = vx]
                      [] i00nn = 24 -> [c EXCEPT !.timer_sound = vx]
                      [] i00nn = 30 -> i_set(c, i0 + vx)
                      [] i00nn = 41 -> OpFX29(c, vx)
                      [] i00nn = 51 -> OpFX33(c, vx, i0)
                      [] i00nn = 85 -> OpFX55(c, x, i0)
                      [] i00nn = 101 -> OpFX65(c, x, i0)
                      [] OTHER -> invalid_instr

\* the instruction word at c.pc: (instruction_hi << 8) | instruction_lo
InstructionAt(c) ==
    FetchedByte(c) * 256 + FetchedByte(fetch(c))

\* run_for_instruction past its early return: fetch, decode, execute
FetchDecodeExecute(c, rnd) ==
    Execute(fetch(fetch(c)), InstructionAt(c), rnd)

\* run_for_instruction without its early return
run_for_instruction_NoWaitCheck(c, rnd) == FetchDecodeExecute(c, rnd)

run_for_instruction(c, rnd) ==
    IF c.is_waiting_for_keypress THEN c
    ELSE FetchDecodeExecute(c, rnd)

---------------------------------------------------------------------------
(* The state machine: the frontend creates a core from a ROM image and     *)
(* then calls run_for_instruction (through run_for_instructions),          *)
(* tick_timers and update_hexpad on it.                                    *)

IsCore(c) ==
    /\ v = c.v /\ pc = c.pc /\ i = c.i /\ written = c.written /\ rom = c.rom
    /\ sp = c.sp /\ stack = c.stack
    /\ timer_sound = c.timer_sound /\ timer_delay = c.timer_delay
    /\ fb = c.fb /\ hexpad_bitmap = c.hexpad_bitmap
    /\ is_waiting_for_keypress = c.is_waiting_for_keypress
    /\ keypress_index_register = c.keypress_index_register
    /\ fault = c.fault

BecomesCore(c) ==
    /\ v' = c.v /\ pc' = c.pc /\ i' = c.i /\ written' = c.written /\ rom' = c.rom
    /\ sp' = c.sp /\ stack' = c.stack
    /\ timer_sound' = c.timer_sound /\ timer_delay' = c.timer_delay
    /\ fb' = c.fb /\ hexpad_bitmap' = c.hexpad_bitmap
    /\ is_waiting_for_keypress' = c.is_waiting_for_keypress
    /\ keypress_index_register' = c.keypress_index_register
    /\ fault' = c.fault

\* the bytes of std::rand() that give distinct values of std::rand() & nn, where
\* the instruction at pc is CXNN; a single byte where std::rand() is not called
RandBytes(c) ==
    LET instruction == InstructionAt(c)
        nn == instruction % 256
    IN  IF ~c.is_waiting_for_keypress /\ instruction \div 4096 = 12
        THEN IF nn = UINT8_MAX THEN 0..UINT8_MAX
             ELSE {r \in 0..UINT8_MAX : BitAnd(r, nn) = r}
        ELSE {0}

\* while (instructions--) run_for_instruction(): the cores the loop can end in,
\* each with the number of calls made; a failed assertion ends the process and
\* with it the loop
RECURSIVE run_for_instructions(_, _, _)
run_for_instructions(c, instructions, calls) ==
    IF instructions = 0 \/ c.fault # "none" THEN {<<c, calls>>}
    ELSE UNION { run_for_instructions(run_for_instruction(c, rnd),
                                      instructions - 1, calls + 1) :
                 rnd \in RandBytes(c) }

\* variant: the timers tick twice after the instructions
run_for_instructions_then_tick_timers_TwoTicks(c, instructions) ==
    { <<IF r[1].fault = "none" THEN tick_timers(tick_timers(r[1])) ELSE r[1], r[2]>> :
      r \in run_for_instructions(c, instructions, 0) }

run_for_instructions_then_tick_timers(c, instructions) ==
    { <<IF r[1].fault = "none" THEN tick_timers(r[1]) ELSE r[1], r[2]>> :
      r \in run_for_instructions(c, instructions, 0) }

\* the 16 bools the frontend passes: any of the keys below MaxKey held down
HexpadInputs == {[k \in 0..15 |-> k \in held] : held \in SUBSET (0..(MaxKey - 1))}

RECURSIVE HexpadBits(_, _)
HexpadBits(hexpad, k) ==
    IF k > 15 THEN 0
    ELSE (IF hexpad[k] THEN Pow2(k) ELSE 0) + HexpadBits(hexpad, k + 1)

update_hexpad(c, hexpad) == update_hexpad_bitmap(c, U16(HexpadBits(hexpad, 0)))

Init ==
    /\ \E r \in GENERAL_ROM_IDS : IsCore(create(r))
    /\ steps = 0

InitAlu ==
    /\ \E r \in ALU_ROM_IDS \cup FONT_ROM_IDS : IsCore(create(r))
    /\ steps = 0

RunForInstruction ==
    /\ fault = "none"
    /\ steps < MaxSteps
    /\ \E rnd \in RandBytes(Self) : BecomesCore(run_for_instruction(Self, rnd))
    /\ steps' = steps + 1

TickTimers ==
    /\ fault = "none"
    /\ BecomesCore(tick_timers(Self))
    /\ UNCHANGED steps

UpdateHexpad ==
    /\ fault = "none"
    /\ \E hexpad \in HexpadInputs : BecomesCore(update_hexpad(Self, hexpad))
    /\ UNCHANGED steps

Next == RunForInstruction \/ TickTimers \/ UpdateHexpad

Spec == Init /\ [][Next]_vars

NextAlu == RunForInstruction

SpecAlu == InitAlu /\ [][NextAlu]_vars

\* one frame of the frontend's loop before the keys are read: a batch of
\* instructions, then one tick of the timers
RunForInstructionsThenTickTimers ==
    /\ fault = "none"
    /\ \E instructions \in 0..MaxBatch :
          /\ steps + instructions <= MaxSteps
          /\ \E r \in run_for_instructions_then_tick_timers(Self, instructions) :
                /\ BecomesCore(r[1])
                /\ steps' = steps + r[2]

\* the frontend's loop: batches and updates of the hexpad
NextBatch == RunForInstructionsThenTickTimers \/ UpdateHexpad

SpecBatch == Init /\ [][NextBatch]_vars

InitReg ==
    /\ \E r \in REG_ROM_IDS : IsCore(create(r))
    /\ steps = 0

\* the register and memory instructions on random bytes, steps only
SpecReg == InitReg /\ [][NextAlu]_vars

InitDecode ==
    /\ \E r \in DECODE_ROM_IDS : IsCore(create(r))
    /\ steps = 0

SpecDecode == InitDecode /\ [][Next]_vars

---------------------------------------------------------------------------
(* Vocabulary of the properties.                                           *)

\* the instruction word a step taken now would fetch, and its fields
Instruction == InstructionAt(Self)
X == (Instruction \div 256) % 16
Y == (Instruction \div 16) % 16
N == Instruction % 16

\* a transition made by RunForInstruction, the only action that counts a step
IsStep == steps' = steps + 1

\* a step that fetches, decodes and executes (the core is not waiting)
ExecutingStep == ~is_waiting_for_keypress /\ IsStep

IsCall == Instruction \div 4096 = 2
IsReturn == Instruction = 238

\* the nesting depth d of the call/return image the core runs: CALL_ROMS are
\* the first images of ROMS, so the image with d calls has index d
CallDepth == rom

---------------------------------------------------------------------------
(* C1: call/return symmetry.  In the image with d nested calls followed by *)
(* returns (d <= 16), after the d calls and k of the returns (1 <= k <= d) *)
(* PC is the address after the matching call, 0x200 + 4(d - k) + 2, and sp *)
(* is d - k; after the d-th return sp is back to 0.                        *)
C1_CallReturnSymmetry ==
    \A d \in 1..STACK_SIZE : \A k \in 1..d :
        (rom \in CALL_ROM_IDS /\ CallDepth = d /\ steps = d + k)
            => /\ fault = "none"
               /\ pc = ROM_BASE + 4 * (d - k) + 2
               /\ sp = d - k

(* C2: 0 <= sp <= 16 always; a call at sp = 16 and a return at sp = 0 fail *)
(* their assertion and leave the stack and sp as they were; any other call *)
(* or return touches one slot, whose index is within 0..15.                *)
C2_StackBounds ==
    /\ [](sp \in 0..STACK_SIZE /\ DOMAIN stack = 0..(STACK_SIZE - 1))
    /\ [][ExecutingStep =>
            /\ (IsCall /\ sp = STACK_SIZE)
                    => (fault' = "stack_push" /\ stack' = stack /\ sp' = sp)
            /\ (IsCall /\ sp < STACK_SIZE)
                    => /\ fault' = "none" /\ sp' = sp + 1
                       /\ \A s \in 0..(STACK_SIZE - 1) : s # sp => stack'[s] = stack[s]
            /\ (IsReturn /\ sp = 0)
                    => (fault' = "stack_pop" /\ stack' = stack /\ sp' = sp)
            /\ (IsReturn /\ sp > 0)
                    => /\ fault' = "none" /\ sp' = sp - 1
                       /\ \A s \in 0..(STACK_SIZE - 1) : s # sp - 1 => stack'[s] = stack[s]
         ]_vars

\* the 17th nested call has failed its assertion with the stack full
C2_Witness == fault = "stack_push" /\ sp = STACK_SIZE /\ steps = STACK_SIZE + 1

---------------------------------------------------------------------------
(* The arithmetic group 8XYn.                                              *)

IsAlu(op) == Instruction \div 4096 = 8 /\ Instruction % 16 = op

\* the instruction at the given address of the image the core runs
ImageWord(address) ==
    ImageByte(ROMS[rom], address) * 256 + ImageByte(ROMS[rom], address + 1)

\* the state after the third instruction of an ALU image, which was 8xy<op>
AfterAlu(op, x, y) ==
    /\ rom \in ALU_ROM_IDS /\ steps = 3 /\ pc = ROM_BASE + 6 /\ fault = "none"
    /\ ImageWord(ROM_BASE + 4) = 8 * 4096 + x * 256 + y * 16 + op

(* C3: 8XY5 leaves VF = 1 if Vx >= Vy held before it and VF = 0 if not,    *)
(* and, in a register x other than the flag register, (Vx - Vy) mod 256.   *)
C3_Subtract ==
    [][(ExecutingStep /\ IsAlu(5)) =>
            /\ v'[15] = (IF v[X] >= v[Y] THEN 1 ELSE 0)
            /\ X # 15 => v'[X] = (v[X] - v[Y]) % 256
      ]_vars

(* C4: 8XY7 leaves VF = 1 if Vy >= Vx held before it and VF = 0 if not,    *)
(* and, in a register x other than the flag register, (Vy - Vx) mod 256.   *)
C4_ReverseSubtract ==
    [][(ExecutingStep /\ IsAlu(7)) =>
            /\ v'[15] = (IF v[Y] >= v[X] THEN 1 ELSE 0)
            /\ X # 15 => v'[X] = (v[Y] - v[X]) % 256
      ]_vars

(* C5: 8XY4 leaves VF = 1 if Vx + Vy > 255 and VF = 0 if not; a register x *)
(* other than 15 holds (Vx + Vy) mod 256, and for x = 15 register 15 holds *)
(* the flag, not the sum; no other register changes.                       *)
C5_AddCarry ==
    [][(ExecutingStep /\ IsAlu(4)) =>
            /\ fault' = "none"
            /\ v'[15] = (IF v[X] + v[Y] > 255 THEN 1 ELSE 0)
            /\ X # 15 => v'[X] = (v[X] + v[Y]) % 256
            /\ \A r \in 0..14 : r # X => v'[r] = v[r]
      ]_vars

\* 250 + 10 was added in V0: V0 = 4 and VF = 1
C5_Witness == AfterAlu(4, 0, 1) /\ v[0] = 4 /\ v[1] = 10 /\ v[15] = 1

(* C6: for x other than 15, 8XY6 leaves VF = bit 0 of Vx and Vx div 2 in   *)
(* Vx, and 8XYE leaves VF = bit 7 of Vx and (2 * Vx) mod 256 in Vx,        *)
(* whatever Vy holds; no other register changes.                           *)
C6_Shifts ==
    [][(ExecutingStep /\ X # 15) =>
            /\ IsAlu(6) => /\ fault' = "none"
                           /\ v'[15] = v[X] % 2
                           /\ v'[X] = v[X] \div 2
                           /\ \A r \in 0..14 : r # X => v'[r] = v[r]
            /\ IsAlu(14) => /\ fault' = "none"
                            /\ v'[15] = v[X] \div 128
                            /\ v'[X] = (2 * v[X]) % 256
                            /\ \A r \in 0..14 : r # X => v'[r] = v[r]
      ]_vars

\* 0x81 was shifted left in V0 with V1 = 3: V0 = 2, VF = 1, V1 = 3
C6_Witness == AfterAlu(14, 0, 1) /\ v[0] = 2 /\ v[1] = 3 /\ v[15] = 1

---------------------------------------------------------------------------
(* DXYN.                                                                   *)

IsDraw == Instruction \div 4096 = 13

\* bit of a sprite byte shown in column c: the leftmost column is bit 7
\* ("msb") or bit 0 ("lsb")
SpriteBit(order, byte, c) == IF order = "msb" THEN Bit(byte, 7 - c) ELSE Bit(byte, c)
BIT_ORDERS == {"msb", "lsb"}

\* the pixels addressed by the set bits of the n sprite bytes at address..:
\* ((vxv + c) mod 60, (vyv + r) mod 60) for row r and column c
SpritePixels(order, vxv, vyv, address, n) ==
    { ((vyv + rc[1]) % FB_HEIGHT) * FB_WIDTH + ((vxv + rc[2]) % FB_WIDTH) :
        rc \in { q \in (0..(n - 1)) \X (0..7) :
                    SpriteBit(order, main_memory(Self, address + q[1]), q[2]) = 1 } }

\* a draw whose n sprite bytes all lie in memory
DrawStep == ExecutingStep /\ IsDraw /\ i + N <= MEM_SIZE

(* C7: a draw changes the framebuffer to old XOR sprite: the pixels the    *)
(* set sprite bits address are inverted and every other pixel is left as   *)
(* it was (for one of the two orders of the bits in a sprite byte).        *)
C7_DrawComposite ==
    [][DrawStep =>
        \E order \in BIT_ORDERS :
            LET drawn == SpritePixels(order, v[X], v[Y], i, N)
            IN  fb' = (fb \ drawn) \cup (drawn \ fb)
      ]_vars

(* C8: after a draw VF = 1 if and only if a pixel addressed by a set       *)
(* sprite bit was on before the draw; otherwise VF = 0, as when the        *)
(* framebuffer was all off or the sprite is all zero.                      *)
C8_DrawCollision ==
    [][DrawStep =>
        \E order \in BIT_ORDERS :
            LET drawn == SpritePixels(order, v[X], v[Y], i, N)
            IN  v'[15] = (IF drawn \cap fb # {} THEN 1 ELSE 0)
      ]_vars

\* the sprite an image of DRAW_ROMS draws twice has a set bit
DrawnSpriteHasBit ==
    LET address == ImageWord(ROM_BASE + 4) % 4096
        n == ImageWord(ROM_BASE + 6) % 16
    IN  \E r \in 0..(n - 1) : main_memory(Self, address + r) # 0

(* C9: from the cleared framebuffer of a new core, the same draw executed  *)
(* twice leaves the framebuffer all off again, and VF = 1 when the sprite  *)
(* has a set bit.                                                          *)
C9_DrawTwice ==
    (rom \in DRAW_ROM_IDS /\ steps = 5 /\ fault = "none")
        => /\ fb = {}
           /\ DrawnSpriteHasBit => v[15] = 1

---------------------------------------------------------------------------
(* FX0A.                                                                   *)

\* every field of the core
CoreFields ==
    <<v, pc, i, written, rom, sp, stack, timer_sound, timer_delay, fb,
      hexpad_bitmap, is_waiting_for_keypress, keypress_index_register, fault>>

(* C10: a step taken while the core waits for a key changes no field of    *)
(* the core: PC, I, registers, memory, stack, sp, framebuffer, timers,     *)
(* keypad latch and the wait state.                                        *)
C10_WaitingStepIsNoOp ==
    [][(is_waiting_for_keypress /\ IsStep) => UNCHANGED CoreFields]_vars

\* the core waits since its first step and two more steps have been taken
C10_Witness ==
    /\ rom \in WAIT_ROM_IDS /\ is_waiting_for_keypress /\ fault = "none"
    /\ steps = 3 /\ pc = ROM_BASE + 2

---------------------------------------------------------------------------
(* The hexpad and the wait for a key.                                      *)

\* the keys set in the latch after the transition and clear before it
NewlyPressed == {k \in 0..15 : Bit(hexpad_bitmap', k) = 1 /\ Bit(hexpad_bitmap, k) = 0}

LowestOf(keys) == CHOOSE k \in keys : \A j \in keys : k <= j
HighestOf(keys) == CHOOSE k \in keys : \A j \in keys : j <= k

(* C11 as stated: when the core waits for a key into Vt and the hexpad is  *)
(* updated with a bitmap that has newly set bits, the wait ends and Vt is  *)
(* the index of the lowest newly set bit, the other registers unchanged.   *)
C11_LowestNewKey ==
    [][(is_waiting_for_keypress /\ NewlyPressed # {})
          => /\ ~is_waiting_for_keypress'
             /\ v' = [v EXCEPT ![keypress_index_register] = LowestOf(NewlyPressed)]]_vars

(* C11 amended: when the core waits for a key into Vt and the hexpad is    *)
(* updated with a bitmap that has newly set bits, the wait ends and Vt is  *)
(* the index of the highest newly set bit, the other registers unchanged.  *)
C11_HighestNewKey ==
    [][(is_waiting_for_keypress /\ NewlyPressed # {})
          => /\ ~is_waiting_for_keypress'
             /\ v' = [v EXCEPT ![keypress_index_register] = HighestOf(NewlyPressed)]]_vars

\* keys 0 and 1 went down in one update and ended the wait into V3
C11_Witness ==
    /\ rom \in WAIT_ROM_IDS /\ steps = 1 /\ ~is_waiting_for_keypress
    /\ hexpad_bitmap = 3 /\ v[3] = 1 /\ pc = ROM_BASE + 2

\* the bitmap of the 16 bools of an input of the frontend
BitmapOf(hexpad) == HexpadBits(hexpad, 0)

(* C12: while the core waits, an update whose bitmap has no newly set bit  *)
(* leaves it waiting and writes no register, and the latch is replaced by  *)
(* the bitmap all the same; an update with a newly set bit ends the wait.  *)
(* So a key held since before the wait ends it only once it was released   *)
(* in one update and pressed in a later one.                               *)
C12_OnlyNewKeyResolves ==
    (is_waiting_for_keypress /\ fault = "none")
        => \A hexpad \in HexpadInputs :
             LET bitmap == BitmapOf(hexpad)
                 updated == update_hexpad(Self, hexpad)
                 new == {k \in 0..15 : hexpad[k] /\ Bit(hexpad_bitmap, k) = 0}
             IN  /\ updated.hexpad_bitmap = bitmap
                 /\ new = {} => updated = [Self EXCEPT !.hexpad_bitmap = bitmap]
                 /\ new # {} => ~updated.is_waiting_for_keypress

\* key 0 is down since before the wait began and the core still waits
C12_Witness ==
    /\ rom \in WAIT_ROM_IDS /\ is_waiting_for_keypress /\ steps = 2
    /\ hexpad_bitmap = 1 /\ v[3] = 0

---------------------------------------------------------------------------
(* The timers.                                                             *)

Floor0(value) == IF value - 1 > 0 THEN value - 1 ELSE 0

\* every field of the core but the two timers
FieldsButTimers ==
    <<v, pc, i, written, rom, sp, stack, fb, hexpad_bitmap,
      is_waiting_for_keypress, keypress_index_register, fault>>

\* a transition that is a batch in which no instruction executes: the batch of
\* 0 instructions (the steps and the latch stay), or a batch of a waiting core
IdleBatch ==
    \/ steps' = steps /\ hexpad_bitmap' = hexpad_bitmap
    \/ steps' > steps /\ is_waiting_for_keypress

\* a batch of one instruction that reads the delay timer into Vx
ReadTimerBatch ==
    /\ steps' = steps + 1 /\ ~is_waiting_for_keypress
    /\ Instruction \div 4096 = 15 /\ Instruction % 256 = 7

(* C13: a batch of n instructions ticks the timers exactly once, after the *)
(* instructions, for n = 0 and for a waiting core too; the tick sets each  *)
(* timer to max(0, value - 1) whatever the other one holds, and changes    *)
(* nothing else.                                                           *)
C13_OneTickPerBatch ==
    [][/\ IdleBatch => /\ timer_delay' = Floor0(timer_delay)
                       /\ timer_sound' = Floor0(timer_sound)
                       /\ UNCHANGED FieldsButTimers
       /\ ReadTimerBatch => /\ v'[X] = timer_delay
                            /\ timer_delay' = Floor0(timer_delay)
                            /\ timer_sound' = Floor0(timer_sound)]_vars

\* the waiting core has been given batches until the sound timer stayed at 0
\* and the delay timer went on counting down
C13_Witness ==
    /\ rom \in TIMER_ROM_IDS /\ is_waiting_for_keypress /\ steps >= 8
    /\ timer_delay = 2 /\ timer_sound = 0

---------------------------------------------------------------------------
(* The 12-bit registers.                                                   *)

\* the executing step runs an instruction of family `top` (the high nibble)
IsFamily(top) == ExecutingStep /\ Instruction \div 4096 = top

(* C14: PC and I are at most 0x0FFF in every state; the fetch (also the    *)
(* one at PC = 0xFFF), a skip taken, the jump to V0 + nnn and the addition *)
(* of Vx to I give their result modulo 4096.                               *)
C14_TwelveBitRegisters ==
    /\ [](pc \in 0..(MEM_SIZE - 1) /\ i \in 0..(MEM_SIZE - 1))
    /\ [][/\ IsFamily(6) => pc' = (pc + 2) % MEM_SIZE
          /\ (IsFamily(3) /\ v[X] = Instruction % 256) => pc' = (pc + 4) % MEM_SIZE
          /\ (IsFamily(3) /\ v[X] # Instruction % 256) => pc' = (pc + 2) % MEM_SIZE
          /\ IsFamily(11) => pc' = (v[0] + (Instruction % 4096)) % MEM_SIZE
          /\ (IsFamily(15) /\ Instruction % 256 = 30) => i' = (i + v[X]) % MEM_SIZE
         ]_vars

\* the word at 0xFFF and 0x000 has been fetched and executed: 60F0
C14_Witness ==
    /\ rom = EdgeRomId(4) /\ steps = 2 /\ pc = 1 /\ v[0] = 240

\* BFFF with V0 = 255 has jumped to 254
C14_JumpWrapped == rom = EdgeRomId(1) /\ steps = 2 /\ pc = 254
\* F01E with I = 0xFFF and V0 = 255 has left I = 254
C14_IndexWrapped == rom = EdgeRomId(2) /\ steps = 3 /\ i = 254
\* 3000 at 0xFFC has skipped to 0x000
C14_SkipWrapped == rom = EdgeRomId(3) /\ steps = 2 /\ pc = 0

---------------------------------------------------------------------------
(* Unknown instruction words.                                              *)

\* the words that are no instruction
IsUnknownWord(word) ==
    LET top == word \div 4096
    IN  \/ top = 0 /\ word \notin {224, 238}
        \/ top = 8 /\ word % 16 \notin (0..7) \cup {14}
        \/ top = 14 /\ word % 256 \notin {158, 161}
        \/ top = 15 /\ word % 256 \notin {7, 10, 21, 24, 30, 41, 51, 85, 101}

(* C15: a step that fetches an unknown word (top nibble 0 other than 00E0  *)
(* and 00EE, 8XYn with n not in 0..7 or E, EXnn other than 9E and A1, FXnn *)
(* other than 07 0A 15 18 1E 29 33 55 65) ends in the error state, and     *)
(* from an error state the core takes no further transition.               *)
C15_UnknownWordIsFatal ==
    /\ [][(ExecutingStep /\ IsUnknownWord(Instruction)) => fault' = "invalid_instr"]_vars
    /\ [][fault = "none"]_vars

\* the word E0A0 at 0x202 has ended the process
C15_Witness ==
    /\ rom \in DECODE_ROM_IDS /\ ImageWord(ROM_BASE + 2) = 14 * 4096 + 160
    /\ steps = 2 /\ fault = "invalid_instr"

\* every field of the core but PC and the fault
FieldsButPc ==
    <<v, i, written, rom, sp, stack, timer_sound, timer_delay, fb,
      hexpad_bitmap, is_waiting_for_keypress, keypress_index_register>>

(* C16 as stated: a step that ends in a decode error leaves PC, I, the     *)
(* registers, memory, stack, sp, framebuffer, timers and wait state as     *)
(* they were before the step.                                              *)
C16_NoMutation ==
    [][(ExecutingStep /\ fault' = "invalid_instr")
          => (pc' = pc /\ UNCHANGED FieldsButPc)]_vars

(* C16 amended: a step that ends in a decode error leaves I, the           *)
(* registers, memory, stack, sp, framebuffer, timers and wait state as     *)
(* they were, and PC two bytes further (modulo 4096), after the word.      *)
C16_OnlyPcAdvances ==
    [][(ExecutingStep /\ fault' = "invalid_instr")
          => (pc' = (pc + 2) % MEM_SIZE /\ UNCHANGED FieldsButPc)]_vars

\* the word 8008 at 0x202 has ended the process: V0 = 5 from the first
\* instruction, PC after the word
C16_Witness ==
    /\ rom \in DECODE_ROM_IDS /\ ImageWord(ROM_BASE + 2) = 8 * 4096 + 8
    /\ steps = 2 /\ fault = "invalid_instr" /\ pc = ROM_BASE + 4 /\ v[0] = 5

---------------------------------------------------------------------------
(* create.                                                                 *)

(* C17: a core created from an image of at most 4096 - 512 = 3584 bytes    *)
(* holds the image from address 512 on and the font in addresses 0..79,    *)
(* with PC = 0x200, sp = 0, no wait and the framebuffer all off; an image  *)
(* of more bytes ends the process in create, before any instruction.       *)
C17_Create ==
    LET romBytes == ROMS[rom]
    IN  /\ Len(romBytes) > 3584 =>
              (fault = "rom_too_large" /\ steps = 0 /\ fb = {} /\ sp = 0)
        /\ (Len(romBytes) <= 3584 /\ steps = 0) =>
              /\ fault = "none"
              /\ \A k \in 1..Len(romBytes) : main_memory(Self, 512 + k - 1) = romBytes[k]
              /\ \A a \in 0..79 : main_memory(Self, a) = FONT_DATA[a + 1]
              /\ pc = 512 /\ sp = 0 /\ ~is_waiting_for_keypress /\ fb = {}

\* the core of an image of 3584 bytes, its last word at 0xFFC
C17_Witness ==
    /\ Len(ROMS[rom]) = 3584 /\ steps = 0 /\ fault = "none"
    /\ main_memory(Self, 4092) = 48 /\ pc = 512

\* the image of 3585 bytes has ended the process
C17_TooLarge == Len(ROMS[rom]) = 3585 /\ fault = "rom_too_large"

---------------------------------------------------------------------------
(* The end of the wait in the frontend's loop.                             *)

\* the byte at `address` modulo the size of memory
MemoryAt(address) == main_memory(Self, address % MEM_SIZE)

(* C18: in the loop of batches and hexpad updates, a waiting core has PC   *)
(* just after the FX0A word that began the wait; an update with a bit not  *)
(* in the latch ends the wait and leaves PC there, so that the next step   *)
(* fetches the word after FX0A and FX0A runs once: in the image F30A 7301, *)
(* V3 is then the key plus one.                                            *)
C18_ResumeAfterWaitWord ==
    /\ [](is_waiting_for_keypress
            => /\ MemoryAt(pc + MEM_SIZE - 2) = 15 * 16 + keypress_index_register
               /\ MemoryAt(pc + MEM_SIZE - 1) = 10)
    /\ [][(is_waiting_for_keypress /\ NewlyPressed # {})
            => (~is_waiting_for_keypress' /\ pc' = pc)]_vars
    /\ []((rom = Len(CALL_ROMS) + 1 /\ steps >= 1)
            => /\ pc >= ROM_BASE + 2
               /\ pc >= ROM_BASE + 4 => (~is_waiting_for_keypress /\ v[3] \in 1..16))

\* key 1 ended the wait of F30A and the next step added 1 to V3
C18_Witness ==
    /\ rom = Len(CALL_ROMS) + 1 /\ ~is_waiting_for_keypress /\ fault = "none"
    /\ pc = ROM_BASE + 4 /\ v[3] = 2 /\ hexpad_bitmap = 2

---------------------------------------------------------------------------
(* FX29.                                                                   *)

(* C19: FX29 sets I to 5 * Vx for every Vx in 0..255 (Vx = 10 gives 50)    *)
(* and changes no register, VF included; for Vx in 0..15 the five bytes    *)
(* I .. I+4 lie inside the font, addresses 0..79.                          *)
C19_GlyphAddress ==
    [][(IsFamily(15) /\ Instruction % 256 = 41)
          => /\ i' = 5 * v[X]
             /\ v' = v
             /\ v[X] \in 0..15 => (i' >= 0 /\ i' + 4 < 80)]_vars

\* the random byte was 10 and FX29 left I = 50
C19_Witness ==
    /\ rom \in FONT_ROM_IDS /\ steps = 2 /\ v[0] = 10 /\ i = 50

\* the random byte was 255 and FX29 left I = 1275, with x = 15
C19_LargestGlyph == rom \in FONT_ROM_IDS /\ steps = 2 /\ v[15] = 255 /\ i = 1275

---------------------------------------------------------------------------
(* Memory accesses.                                                        *)

(* C20: no instruction sequence makes an access to memory outside 0..4095: *)
(* the assertions of mem_read and mem_write (fetch, DXYN at I + row, FX33  *)
(* at I .. I+2, FX55 and FX65 at I .. I+x) never fail.                     *)
C20_NoMemoryFault == fault \notin {"mem_read", "mem_write"}

---------------------------------------------------------------------------
(* The coordinates of a draw.                                              *)

\* a draw from Vx = 59 onto the framebuffer all off, of a sprite with a set
\* bit in its second column, for one of the two orders of the bits
DrawAtRightEdge ==
    /\ DrawStep /\ v[X] = FB_WIDTH - 1 /\ fb = {}
    /\ \E order \in BIT_ORDERS : \E r \in 0..(N - 1) :
          SpriteBit(order, MemoryAt(i + r), 1) = 1

(* C21: the coordinate assertion of the framebuffer never fails in a draw, *)
(* whatever Vx, Vy and n; and the draw wraps: a sprite drawn from Vx = 59  *)
(* has its second column at x = 0, so that after the draw onto the         *)
(* framebuffer all off a pixel of column 0 is on.                          *)
C21_DrawCoordinates ==
    [][/\ fault' \notin {"pixel_status", "set_pixel"}
       /\ DrawAtRightEdge => \E p \in fb' : p % FB_WIDTH = 0]_vars

---------------------------------------------------------------------------
(* The fetch.                                                              *)

\* the two bytes at PC and PC + 1, the first one the high byte
WordAtPc == MemoryAt(pc) * 256 + MemoryAt(pc + 1)

\* PC after k more bytes
PcPlus(k) == (pc + k) % MEM_SIZE

(* C22: a step of a running core executes the word memory[PC] * 256 +      *)
(* memory[PC + 1] with PC already 2 further: a call pushes the address     *)
(* after the call and jumps, a skip taken leaves PC + 4, a skip not taken  *)
(* and an instruction that is no jump leave PC + 2 (modulo 4096).          *)
C22_FetchOrder ==
    [][(ExecutingStep /\ fault' = "none") =>
        LET word == WordAtPc
            top == word \div 4096
            nnn == word % 4096
            nn == word % 256
            vx == v[(word \div 256) % 16]
            vy == v[(word \div 16) % 16]
            skipIf(taken) == pc' = IF taken THEN PcPlus(4) ELSE PcPlus(2)
        IN  CASE top = 1 -> pc' = nnn
              [] top = 2 -> stack'[sp] = PcPlus(2) /\ sp' = sp + 1 /\ pc' = nnn
              [] top = 3 -> skipIf(vx = nn)
              [] top = 4 -> skipIf(vx # nn)
              [] top = 5 -> skipIf(vx = vy)
              [] top = 9 -> skipIf(vx # vy)
              [] top = 11 -> pc' = (v[0] + nnn) % MEM_SIZE
              [] top = 6 -> pc' = PcPlus(2) /\ v'[(word \div 256) % 16] = nn
              [] OTHER -> pc' \in {PcPlus(2), PcPlus(4)} /\ (top # 14 => pc' = PcPlus(2))
      ]_vars

\* the call at 0x21E has pushed 0x220 and jumped to 0x222, after the skips
C22_Witness ==
    /\ rom = StepRomId(1) /\ fault = "none" /\ steps = 12
    /\ sp = 1 /\ stack[0] = ROM_BASE + 32 /\ pc = ROM_BASE + 34

---------------------------------------------------------------------------
(* The key tests and the latch.                                            *)

\* every field of the core but the latch
FieldsButLatch ==
    <<v, pc, i, written, rom, sp, stack, timer_sound, timer_delay, fb,
      is_waiting_for_keypress, keypress_index_register, fault>>

\* the key test of the executing step, EX9E or EXA1
IsKeyTest(low) == IsFamily(14) /\ Instruction % 256 = low

(* C23: EX9E skips exactly when bit (Vx AND 0xF) of the latch is 1, EXA1   *)
(* exactly when it is 0, for every Vx and with no assertion failing; the   *)
(* latch changes only in a hexpad update (no step, no tick), and an update *)
(* of a running core changes nothing but the latch.                        *)
C23_KeyTestsAndLatch ==
    [][/\ IsKeyTest(158) =>
            /\ fault' = "none"
            /\ pc' = IF Bit(hexpad_bitmap, v[X] % 16) = 1 THEN PcPlus(4) ELSE PcPlus(2)
       /\ IsKeyTest(161) =>
            /\ fault' = "none"
            /\ pc' = IF Bit(hexpad_bitmap, v[X] % 16) = 0 THEN PcPlus(4) ELSE PcPlus(2)
       /\ hexpad_bitmap' # hexpad_bitmap =>
            /\ steps' = steps /\ UNCHANGED <<timer_delay, timer_sound>>
            /\ ~is_waiting_for_keypress => UNCHANGED FieldsButLatch
      ]_vars

\* V0 = 0x31 and key 1 down: EX9E skipped 6101, then EXA1 did not skip 6201
C23_Witness ==
    /\ rom = StepRomId(2) /\ fault = "none" /\ steps = 4
    /\ v[0] = 49 /\ hexpad_bitmap = 2 /\ v[1] = 0 /\ v[2] = 1 /\ pc = ROM_BASE + 10

---------------------------------------------------------------------------
(* The instructions without a flag.                                        *)

\* every field of the core but the registers, PC and the fault
FieldsButRegistersAndPc ==
    <<i, written, rom, sp, stack, timer_sound, timer_delay, fb,
      hexpad_bitmap, is_waiting_for_keypress, keypress_index_register>>

\* the executing step runs 8XYn
IsLogic(n) == IsFamily(8) /\ N = n

\* Vx after the step has in each bit what `f` gives for the bits of Vx and Vy
BitwiseResult(f(_, _)) ==
    /\ v'[X] \in 0..UINT8_MAX
    /\ \A k \in 0..7 : Bit(v'[X], k) = f(Bit(v[X], k), Bit(v[Y], k))

OrBit(a, b) == IF a + b > 0 THEN 1 ELSE 0
AndBit(a, b) == a * b
XorBit(a, b) == (a + b) % 2

(* C24: for x other than 15, 6XNN (Vx = nn), 7XNN (Vx = (Vx + nn) mod 256, *)
(* also when the sum is above 255), 8XY0 (copy), 8XY1 (OR), 8XY2 (AND)     *)
(* and 8XY3 (XOR) change register x and PC only: VF, the other registers,  *)
(* I, memory, stack, timers and framebuffer stay.                          *)
C24_NoFlagInstructions ==
    [][(X # 15 /\ (IsFamily(6) \/ IsFamily(7) \/ \E n \in 0..3 : IsLogic(n))) =>
         /\ IsFamily(6) => v'[X] = Instruction % 256
         /\ IsFamily(7) => v'[X] = (v[X] + (Instruction % 256)) % 256
         /\ IsLogic(0) => v'[X] = v[Y]
         /\ IsLogic(1) => BitwiseResult(OrBit)
         /\ IsLogic(2) => BitwiseResult(AndBit)
         /\ IsLogic(3) => BitwiseResult(XorBit)
         /\ \A r \in (0..15) \ {X} : v'[r] = v[r]
         /\ pc' = PcPlus(2) /\ fault' = "none"
         /\ UNCHANGED FieldsButRegistersAndPc
      ]_vars

\* 70C8 has added 200 to V0 = 100: V0 = 44, and VF is the 0x5A it was
C24_Witness ==
    /\ rom = RegRomId(2) /\ steps = 5 /\ v[0] = 44 /\ v[15] = 90 /\ i = 801

---------------------------------------------------------------------------
(* FX55, FX65 and FX33.                                                    *)

\* the bytes of memory outside `range` are after the step what they were
MemoryKeptOutside(range) ==
    \A a \in ((DOMAIN written) \cup (DOMAIN written')) \ range :
        MemoryAt(a)' = MemoryAt(a)

\* the executing step runs FXnn with nn = low, on bytes I .. I + last that
\* all are in memory
IsMemoryOp(low, last) ==
    IsFamily(15) /\ Instruction % 256 = low /\ i + last < MEM_SIZE

(* C25: FX55 stores Vj in memory[I + j] for every j in 0..x, x included,   *)
(* and changes no other byte and no register; FX65 loads Vj from           *)
(* memory[I + j] for every j in 0..x and changes no register above x and   *)
(* no memory; neither changes I. (The x + 1 bytes lie in memory.)          *)
C25_StoreAndLoad ==
    [][/\ IsMemoryOp(85, X) =>
            /\ \A j \in 0..X : MemoryAt(i + j)' = v[j]
            /\ MemoryKeptOutside(i..(i + X))
            /\ v' = v /\ i' = i /\ fault' = "none"
       /\ IsMemoryOp(101, X) =>
            /\ \A j \in 0..X : v'[j] = MemoryAt(i + j)
            /\ \A j \in (X + 1)..15 : v'[j] = v[j]
            /\ written' = written /\ i' = i /\ fault' = "none"
      ]_vars

\* V0 = 200 and V1 = 129 were stored, overwritten by 0x11 and 0x22 and loaded
\* again by F165, which left V2 = 0x77
C25_Witness ==
    /\ rom = RegRomId(7) /\ steps = 11 /\ fault = "none"
    /\ v[0] = 200 /\ v[1] = 129 /\ v[2] = 119 /\ v[3] = 68
    /\ MemoryAt(768) = 200 /\ MemoryAt(770) = 51 /\ MemoryAt(771) = 0 /\ i = 768

(* C26: FX33 stores the decimal digits of Vx, for every Vx in 0..255:      *)
(* memory[I] = Vx div 100, memory[I+1] = (Vx div 10) mod 10, memory[I+2] = *)
(* Vx mod 10, so 100 * memory[I] + 10 * memory[I+1] + memory[I+2] = Vx; no *)
(* other byte, no register and not I changes. (The three bytes lie in      *)
(* memory.)                                                                *)
C26_DecimalDigits ==
    [][IsMemoryOp(51, 2) =>
         /\ MemoryAt(i)' = v[X] \div 100
         /\ MemoryAt(i + 1)' = (v[X] \div 10) % 10
         /\ MemoryAt(i + 2)' = v[X] % 10
         /\ 100 * MemoryAt(i)' + 10 * MemoryAt(i + 1)' + MemoryAt(i + 2)' = v[X]
         /\ MemoryKeptOutside(i..(i + 2))
         /\ v' = v /\ i' = i /\ fault' = "none"
      ]_vars

\* V0 = 254 gave the digits 2, 5, 4 at 0x300
C26_Witness ==
    /\ rom = RegRomId(8) /\ steps = 3 /\ v[0] = 254 /\ i = 768
    /\ MemoryAt(768) = 2 /\ MemoryAt(769) = 5 /\ MemoryAt(770) = 4

===========================================================================
